---- MODULE Spec2Model ----
(***************************************************************************)
(* The CloudStack cloud-provider adapter (CSCloud): construction from the  *)
(* configuration, capability queries, zone resolution with its cache, and  *)
(* the instance lookups, against a remote API holding virtual machines.    *)
(*                                                                         *)
(* Strings that the code only passes around are TLA+ strings.  A string    *)
(* the code rewrites (the service-offering name) is a sequence of          *)
(* one-character strings.  A Go error is a record [msg, cause]; the nil    *)
(* error is NoErr.  A nil pointer is a record without the pointee's        *)
(* fields, so that dereferencing it is an evaluation error.                *)
(***************************************************************************)
EXTENDS Integers, Sequences, FiniteSets, TLC

VARIABLES
    cs,            \* the adapter (*CSCloud): [client, projectID, zone], or NoAdapter
    vms,           \* the remote API's state: the virtual machines that exist now
    call,          \* per caller goroutine: the adapter call in progress, its locals
    firstResolved, \* history: the zone name stored by the first GetZone that resolved
    cfg,           \* the settings handed to newCSCloud
    newRet,        \* what newCSCloud returned: [cs, err]
    capRet,        \* the last capability query: [query, before, impl, ok]
    inst0,         \* the instance handed to a pure function
    pureRet        \* that function's result: [fn, val, err]

vars == <<cs, vms, call, firstResolved, cfg, newRet, capRet, inst0, pureRet>>

(***************************************************************************)
(* Bounds.                                                                 *)
(***************************************************************************)
NumCallers == 2      \* goroutines calling the adapter concurrently
MaxNameLen == 3      \* longest service-offering name enumerated in full

(***************************************************************************)
(* Errors.                                                                 *)
(***************************************************************************)
NoErr == [msg |-> "nil", cause |-> "nil"]

Err(msg, cause) == [msg |-> msg, cause |-> cause]

\* cloudprovider.InstanceNotFound, cloudprovider.NotImplemented
InstanceNotFound == Err("instance not found", "")

\* what the remote client reports
ErrNoMatch == "no match found"
ErrTransport == "transport failure"
ErrAmbiguous == "more than one result"

ProviderName == "external-cloudstack"

(***************************************************************************)
(* Characters and the label filter.                                        *)
(***************************************************************************)
Letters == {"a", "g", "l", "m", "p", "r", "s", "u", "e"}
Digits == {"1"}
AlphaNum == Letters \cup Digits
LabelPunct == {"-", "_", "."}

\* the alphabet enumerated in full up to MaxNameLen
Alphabet == {"a", "1", "-", "_", ".", "!"}

\* [^A-Za-z0-9]
NonAlnum(c) == c \notin AlphaNum

\* [^-A-Za-z0-9_.]
NonLabelChar(c) == c \notin (AlphaNum \cup LabelPunct)

\* The longest run s[i..i+k-1] of NonLabelChar characters starting at i.
RECURSIVE StarMax(_, _)
StarMax(s, i) ==
    IF i <= Len(s) /\ NonLabelChar(s[i]) THEN 1 + StarMax(s, i + 1) ELSE 0

\* labelInvalidCharsRegex matched at position i of s, leftmost-first as Go's regexp
\* does: the optional group is tried before its absence, the star is greedy and
\* gives characters back one at a time.  The result is the position after the match,
\* or 0 when the pattern does not match at i.
\*   ([^A-Za-z0-9][^-A-Za-z0-9_.]*)?[^A-Za-z0-9]
MatchEnd(s, i) ==
    LET n == Len(s)
        \* group present: s[i] non-alphanumeric, k star characters, then the last one
        withGroup == { k \in 0 .. (IF i <= n /\ NonAlnum(s[i]) THEN StarMax(s, i + 1) ELSE -1) :
                         i + 1 + k <= n /\ NonAlnum(s[i + 1 + k]) }
    IN  IF withGroup # {}
        THEN i + 2 + (CHOOSE k \in withGroup : \A j \in withGroup : j <= k)
        ELSE IF i <= n /\ NonAlnum(s[i]) THEN i + 1 ELSE 0

\* regexp.ReplaceAllString(s, ``) from position i on: every non-overlapping match,
\* found left to right, is dropped.
RECURSIVE ReplaceAllFrom(_, _)
ReplaceAllFrom(s, i) ==
    IF i > Len(s) THEN <<>>
    ELSE LET e == MatchEnd(s, i)
         IN  IF e = 0 THEN <<s[i]>> \o ReplaceAllFrom(s, i + 1)
             ELSE ReplaceAllFrom(s, e)

\* labelInvalidCharsRegex.ReplaceAllString(name, ``)
SanitizeLabel(name) == ReplaceAllFrom(name, 1)


(***************************************************************************)
(* The remote API: virtual machines, and the client's two lookups.         *)
(***************************************************************************)
NoVM == [nil |-> TRUE]

\* os.Hostname() of the machine the adapter runs on
HostName == "host0"

NodeNames == {"host0", "node1"}
ProjectIDs == {"", "p1"}
Zones == {"", "z1", "z2"}

VM(id, name, proj, zn, nic, hn, pub, off) ==
    [Id |-> id, Name |-> name, Projectid |-> proj, Zonename |-> zn, Nic |-> nic,
     Hostname |-> hn, Publicip |-> pub, Serviceofferingname |-> off]

\* The machines that may exist.  Three carry the local host's name: one per zone
\* name the API may report (a machine destroyed and created again elsewhere, and
\* one whose response carries no zone name).
VMUniverse ==
    { VM("i1", "host0", "", "z1", <<"10.0.0.5">>, "", "", <<"m", "1", ".", "s", "!">>),
      VM("i2", "host0", "", "z2", <<"10.0.0.6", "10.0.0.7">>, "host0", "", <<"#", "g", "-", "l">>),
      VM("i3", "host0", "", "", <<"10.0.0.8">>, "", "203.0.113.8", <<"m", "1">>),
      VM("i4", "node1", "p1", "z2", <<"10.0.0.9">>, "node1", "203.0.113.9", <<"g", "p", "u">>),
      VM("i5", "node1", "", "z1", <<>>, "node1", "", <<"s">>) }

ProviderIDs == { v.Id : v \in VMUniverse }

\* The machines a lookup sees: by name or by identifier, within the project given
\* (WithProject("") sets no project, which is the account's own machines).
Matches(present, by, key, scope) ==
    { v \in present : /\ (IF by = "name" THEN v.Name = key ELSE v.Id = key)
                      /\ v.Projectid = scope }

\* What GetVirtualMachineByName / GetVirtualMachineByID may return now, as
\* (instance, count, err): any call may fail in transport (count -1); otherwise
\* zero matches (count 0, an error), one match, or several (an error).
Responses(present, by, key, scope) ==
    LET m == Matches(present, by, key, scope)
    IN  {[inst |-> NoVM, count |-> -1, err |-> ErrTransport]}
        \cup (IF m = {} THEN {[inst |-> NoVM, count |-> 0, err |-> ErrNoMatch]}
              ELSE IF Cardinality(m) = 1
                   THEN {[inst |-> CHOOSE v \in m : TRUE, count |-> 1, err |-> "nil"]}
                   ELSE {[inst |-> NoVM, count |-> Cardinality(m), err |-> ErrAmbiguous]})

\* A lookup as the caller's log keeps it: the function that made it, its key, and
\* the count and error the client answered.
Lookup(fn, by, key, scope, r) ==
    [fn |-> fn, by |-> by, key |-> key, scope |-> scope, count |-> r.count, err |-> r.err]

(***************************************************************************)
(* Construction.                                                           *)
(***************************************************************************)
NoAdapter == [nil |-> TRUE]
NoClient == [nil |-> TRUE]

Configs ==
    [APIURL : {"", "https://api"}, APIKey : {"", "key"}, SecretKey : {"", "secret"},
     SSLNoVerify : BOOLEAN, ProjectID : ProjectIDs, Zone : Zones]

\* cloudstack.NewAsyncClient(url, key, secret, verifyssl)
NewAsyncClient(url, key, secret, verify) ==
    [url |-> url, key |-> key, secret |-> secret, verifyssl |-> verify]

\* &CSCloud{projectID: ..., zone: ...}: the adapter before a client is attached
CSCloudLiteral(c) == [client |-> NoClient, projectID |-> c.ProjectID, zone |-> c.Zone]

\* newCSCloud attaching a client when any one of the three fields is set
NewCSCloudAnyField(c) ==
    LET cs0 == CSCloudLiteral(c)
        cs1 == IF c.APIURL # "" \/ c.APIKey # "" \/ c.SecretKey # ""
               THEN [cs0 EXCEPT !.client =
                        NewAsyncClient(c.APIURL, c.APIKey, c.SecretKey, ~c.SSLNoVerify)]
               ELSE cs0
    IN  IF cs1.client = NoClient
        THEN [cs |-> NoAdapter, err |-> Err("no cloud provider config given", "")]
        ELSE [cs |-> cs1, err |-> NoErr]

\* newCSCloud(cfg): (adapter, err)
NewCSCloud(c) ==
    LET cs0 == CSCloudLiteral(c)
        cs1 == IF c.APIURL # "" /\ c.APIKey # "" /\ c.SecretKey # ""
               THEN [cs0 EXCEPT !.client =
                        NewAsyncClient(c.APIURL, c.APIKey, c.SecretKey, ~c.SSLNoVerify)]
               ELSE cs0
    IN  IF cs1.client = NoClient
        THEN [cs |-> NoAdapter, err |-> Err("no cloud provider config given", "")]
        ELSE [cs |-> cs1, err |-> NoErr]

(***************************************************************************)
(* Capability queries: (implementation, supported).                        *)
(***************************************************************************)
Unsupported == [impl |-> NoAdapter, ok |-> FALSE]

LoadBalancer(a) == IF a.client = NoClient THEN Unsupported ELSE [impl |-> a, ok |-> TRUE]

Instances(a) == IF a.client = NoClient THEN Unsupported ELSE [impl |-> a, ok |-> TRUE]

InstancesV2(a) == IF a.client = NoClient THEN Unsupported ELSE [impl |-> a, ok |-> TRUE]

ZonesCap(a) == IF a.client = NoClient THEN Unsupported ELSE [impl |-> a, ok |-> TRUE]

\* Clusters answering as Zones does
ClustersSupported(a) == IF a.client = NoClient THEN Unsupported ELSE [impl |-> a, ok |-> TRUE]

Clusters(a) == IF a.client = NoClient THEN Unsupported ELSE Unsupported

Routes(a) == IF a.client = NoClient THEN Unsupported ELSE Unsupported

(***************************************************************************)
(* The instance operations, each as a function of the remote response r.   *)
(* A result is [val, err].                                                 *)
(***************************************************************************)
Ret(val, err) == [val |-> val, err |-> err]

\* the error mapping all lookups share: count == 0 is "not found"
LookupErr(r, notFound, msg) == IF r.count = 0 THEN notFound ELSE Err(msg, r.err)

InternalIP(a) == [Type |-> "InternalIP", Address |-> a]
HostNameAddr(a) == [Type |-> "Hostname", Address |-> a]
ExternalIP(a) == [Type |-> "ExternalIP", Address |-> a]

\* nodeAddresses with the last two appends in the other order
nodeAddressesExternalFirst(instance) ==
    IF Len(instance.Nic) = 0
    THEN Ret(<<>>, Err("instance does not have an internal IP", ""))
    ELSE Ret(<<InternalIP(instance.Nic[1])>>
             \o (IF instance.Publicip # "" THEN <<ExternalIP(instance.Publicip)>> ELSE <<>>)
             \o (IF instance.Hostname # "" THEN <<HostNameAddr(instance.Hostname)>> ELSE <<>>),
             NoErr)

\* cs.nodeAddresses(instance)
nodeAddresses(instance) ==
    IF Len(instance.Nic) = 0
    THEN Ret(<<>>, Err("instance does not have an internal IP", ""))
    ELSE Ret(<<InternalIP(instance.Nic[1])>>
             \o (IF instance.Hostname # "" THEN <<HostNameAddr(instance.Hostname)>> ELSE <<>>)
             \o (IF instance.Publicip # "" THEN <<ExternalIP(instance.Publicip)>> ELSE <<>>),
             NoErr)

\* NodeAddresses / NodeAddressesByProviderID after the lookup
NodeAddressesResult(r) ==
    IF r.err # "nil"
    THEN Ret(<<>>, LookupErr(r, InstanceNotFound, "error retrieving node addresses"))
    ELSE nodeAddresses(r.inst)

\* InstanceID after the lookup
InstanceIDResult(r) ==
    IF r.err # "nil"
    THEN Ret("", LookupErr(r, InstanceNotFound, "error retrieving instance ID"))
    ELSE Ret(r.inst.Id, NoErr)

\* InstanceType / InstanceTypeByProviderID after the lookup
InstanceTypeResult(r) ==
    IF r.err # "nil"
    THEN Ret(<<>>, LookupErr(r, InstanceNotFound, "error retrieving instance type"))
    ELSE Ret(SanitizeLabel(r.inst.Serviceofferingname), NoErr)

\* InstanceExistsByProviderID after the lookup
InstanceExistsByProviderIDResult(r) ==
    IF r.err # "nil"
    THEN (IF r.count = 0 THEN Ret(FALSE, NoErr)
          ELSE Ret(FALSE, Err("error retrieving instance", r.err)))
    ELSE Ret(TRUE, NoErr)

ZeroZone == [FailureDomain |-> "", Region |-> ""]

\* GetZoneByProviderID after the lookup
GetZoneByProviderIDResult(r) ==
    IF r.err # "nil"
    THEN Ret(ZeroZone, LookupErr(r, Err("could not find node by ID", ""), "error retrieving zone"))
    ELSE Ret([FailureDomain |-> r.inst.Zonename, Region |-> r.inst.Zonename], NoErr)

\* GetZoneByNodeName after the lookup
GetZoneByNodeNameResult(r) ==
    IF r.err # "nil"
    THEN Ret(ZeroZone, LookupErr(r, Err("could not find node", ""), "error retrieving zone"))
    ELSE Ret([FailureDomain |-> r.inst.Zonename, Region |-> r.inst.Zonename], NoErr)

\* GetZone's error after its lookup failed
GetZoneLookupErr(r) ==
    IF r.count = 0 THEN Err("could not find instance for retrieving the zone", r.err)
    ELSE Err("error getting instance for retrieving the zone", r.err)

NoMeta == [nil |-> TRUE]

(***************************************************************************)
(* Callers.  A goroutine is idle, inside a call, or holds a call's result  *)
(* (pc = "done") until it calls again.  Every access to cs.zone and every  *)
(* remote call is a step of its own: the code takes no lock.               *)
(***************************************************************************)
Procs == 1 .. NumCallers

IdleCall ==
    [op |-> "idle", pc |-> "idle", arg |-> "", later |-> FALSE, cached |-> "",
     lookups |-> <<>>, rets |-> <<>>, inst |-> NoVM, nodeInst |-> NoVM,
     zone |-> ZeroZone, instanceType |-> <<>>, addresses |-> <<>>,
     providerID |-> "", ret |-> Ret(<<>>, NoErr)]

\* a new call: locals at their zero values; "later" records whether the cache had
\* been resolved by a GetZone before this call began
Fresh(op, arg) ==
    [IdleCall EXCEPT !.op = op, !.arg = arg, !.pc = "run", !.later = firstResolved.set]

CanCall(p) == cs # NoAdapter /\ call[p].pc \in {"idle", "done"}

\* one remote lookup made by function fn of call c, with response r
Looked(c, fn, by, key, scope, r) ==
    [c EXCEPT !.lookups = Append(@, Lookup(fn, by, key, scope, r)), !.inst = r.inst]

\* function fn returned err
Returned(c, fn, err) == [c EXCEPT !.rets = Append(@, [fn |-> fn, err |-> err])]

\* the call is over with result ret
Done(c, ret) == [c EXCEPT !.pc = "done", !.ret = ret]

Rest == <<cfg, newRet, capRet, inst0, pureRet>>

(***************************************************************************)
(* The operations that make one lookup and return.                         *)
(***************************************************************************)
\* a call op(key) that makes one lookup, answered r, and returns res
OneLookup(p, op, by, key, r, res) ==
    /\ call' = [call EXCEPT ![p] =
                   Done(Looked(Fresh(op, key), op, by, key, cs.projectID, r), res)]
    /\ UNCHANGED <<cs, vms, firstResolved, Rest>>

NodeAddresses(p) ==
    /\ CanCall(p)
    /\ \E name \in NodeNames : \E r \in Responses(vms, "name", name, cs.projectID) :
          OneLookup(p, "NodeAddresses", "name", name, r, NodeAddressesResult(r))

NodeAddressesByProviderID(p) ==
    /\ CanCall(p)
    /\ \E id \in ProviderIDs : \E r \in Responses(vms, "id", id, cs.projectID) :
          OneLookup(p, "NodeAddressesByProviderID", "id", id, r, NodeAddressesResult(r))

InstanceID(p) ==
    /\ CanCall(p)
    /\ \E name \in NodeNames : \E r \in Responses(vms, "name", name, cs.projectID) :
          OneLookup(p, "InstanceID", "name", name, r, InstanceIDResult(r))

InstanceType(p) ==
    /\ CanCall(p)
    /\ \E name \in NodeNames : \E r \in Responses(vms, "name", name, cs.projectID) :
          OneLookup(p, "InstanceType", "name", name, r, InstanceTypeResult(r))

InstanceTypeByProviderID(p) ==
    /\ CanCall(p)
    /\ \E id \in ProviderIDs : \E r \in Responses(vms, "id", id, cs.projectID) :
          OneLookup(p, "InstanceTypeByProviderID", "id", id, r, InstanceTypeResult(r))

InstanceExistsByProviderID(p) ==
    /\ CanCall(p)
    /\ \E id \in ProviderIDs : \E r \in Responses(vms, "id", id, cs.projectID) :
          OneLookup(p, "InstanceExistsByProviderID", "id", id, r,
                    InstanceExistsByProviderIDResult(r))

GetZoneByProviderID(p) ==
    /\ CanCall(p)
    /\ \E id \in ProviderIDs : \E r \in Responses(vms, "id", id, cs.projectID) :
          OneLookup(p, "GetZoneByProviderID", "id", id, r, GetZoneByProviderIDResult(r))

GetZoneByNodeName(p) ==
    /\ CanCall(p)
    /\ \E name \in NodeNames : \E r \in Responses(vms, "name", name, cs.projectID) :
          OneLookup(p, "GetZoneByNodeName", "name", name, r, GetZoneByNodeNameResult(r))

(***************************************************************************)
(* InstanceExists(node): InstanceID, then InstanceExistsByProviderID.      *)
(***************************************************************************)
\* InstanceExists going on to its second lookup whatever InstanceID returned
InstanceExistsUnchecked(p) ==
    /\ CanCall(p)
    /\ \E name \in NodeNames : \E r \in Responses(vms, "name", name, cs.projectID) :
          LET id == InstanceIDResult(r)
              c1 == Returned(Looked(Fresh("InstanceExists", name), "InstanceID", "name",
                                    name, cs.projectID, r), "InstanceID", id.err)
          IN  call' = [call EXCEPT ![p] = [c1 EXCEPT !.providerID = id.val, !.pc = "ex_byid"]]
    /\ UNCHANGED <<cs, vms, firstResolved, Rest>>

\* providerID, err := cs.InstanceID(...); if err != nil { return false, err }
InstanceExists(p) ==
    /\ CanCall(p)
    /\ \E name \in NodeNames : \E r \in Responses(vms, "name", name, cs.projectID) :
          LET id == InstanceIDResult(r)
              c1 == Returned(Looked(Fresh("InstanceExists", name), "InstanceID", "name",
                                    name, cs.projectID, r), "InstanceID", id.err)
          IN  call' = [call EXCEPT ![p] =
                          IF id.err # NoErr THEN Done(c1, Ret(FALSE, id.err))
                          ELSE [c1 EXCEPT !.providerID = id.val, !.pc = "ex_byid"]]
    /\ UNCHANGED <<cs, vms, firstResolved, Rest>>

\* return cs.InstanceExistsByProviderID(ctx, providerID)
InstanceExistsSecond(p) ==
    /\ call[p].pc = "ex_byid"
    /\ \E r \in Responses(vms, "id", call[p].providerID, cs.projectID) :
          LET res == InstanceExistsByProviderIDResult(r)
              c1 == Returned(Looked(call[p], "InstanceExistsByProviderID", "id",
                                    call[p].providerID, cs.projectID, r),
                             "InstanceExistsByProviderID", res.err)
          IN  call' = [call EXCEPT ![p] = Done(c1, res)]
    /\ UNCHANGED <<cs, vms, firstResolved, Rest>>

(***************************************************************************)
(* GetZone, called by the orchestrator or by InstanceMetadata.             *)
(***************************************************************************)
\* GetZone without the test of the cache: it always looks up
GetZoneEnterAlways(c) == [c EXCEPT !.cached = cs.zone, !.pc = "gz_lookup"]

\* if cs.zone == "" { ... }: the test of the cache
GetZoneEnter(c) ==
    [c EXCEPT !.cached = cs.zone, !.pc = IF cs.zone = "" THEN "gz_lookup" ELSE "gz_fd"]

\* InstanceMetadata wrapping the sub-call's error before it returns it
MetaCheckWrapped(c, err, next) ==
    IF err # NoErr THEN Done(c, Ret(NoMeta, Err("error retrieving metadata", err.msg)))
    ELSE [c EXCEPT !.pc = next]

\* if err != nil { return nil, err } in InstanceMetadata, after a sub-call
MetaCheck(c, err, next) ==
    IF err # NoErr THEN Done(c, Ret(NoMeta, err)) ELSE [c EXCEPT !.pc = next]

\* GetZone returns (zone, err): to the orchestrator, or into InstanceMetadata
GetZoneExit(c, zone, err) ==
    LET c1 == Returned([c EXCEPT !.zone = zone], "GetZone", err)
    IN  IF c.op = "GetZone" THEN Done(c1, Ret(zone, err))
        ELSE MetaCheck(c1, err, "md_build")

GetZone(p) ==
    /\ CanCall(p)
    /\ call' = [call EXCEPT ![p] = GetZoneEnter(Fresh("GetZone", ""))]
    /\ UNCHANGED <<cs, vms, firstResolved, Rest>>

\* os.Hostname(), then GetVirtualMachineByName(hostname) with no project
GetZoneLookup(p) ==
    /\ call[p].pc = "gz_lookup"
    /\ \E hostOK \in BOOLEAN :
          IF ~hostOK
          THEN call' = [call EXCEPT ![p] =
                           GetZoneExit(@, ZeroZone,
                               Err("failed to get hostname for retrieving the zone", "hostname"))]
          ELSE \E r \in Responses(vms, "name", HostName, "") :
                  LET c0 == Looked(call[p], "GetZone", "name", HostName, "", r)
                  IN  call' = [call EXCEPT ![p] =
                                  IF r.err # "nil"
                                  THEN GetZoneExit(c0, ZeroZone, GetZoneLookupErr(r))
                                  ELSE [c0 EXCEPT !.pc = "gz_write"]]
    /\ UNCHANGED <<cs, vms, firstResolved, Rest>>

\* cs.zone = instance.Zonename
GetZoneWrite(p) ==
    /\ call[p].pc = "gz_write"
    /\ cs' = [cs EXCEPT !.zone = call[p].inst.Zonename]
    /\ firstResolved' = IF firstResolved.set THEN firstResolved
                        ELSE [set |-> TRUE, zone |-> call[p].inst.Zonename]
    /\ call' = [call EXCEPT ![p].pc = "gz_fd"]
    /\ UNCHANGED <<vms, Rest>>

\* zone.FailureDomain = cs.zone
GetZoneFailureDomain(p) ==
    /\ call[p].pc = "gz_fd"
    /\ call' = [call EXCEPT ![p].zone.FailureDomain = cs.zone, ![p].pc = "gz_region"]
    /\ UNCHANGED <<cs, vms, firstResolved, Rest>>

\* zone.Region = cs.zone; return zone, nil
GetZoneRegion(p) ==
    /\ call[p].pc = "gz_region"
    /\ call' = [call EXCEPT ![p] =
                   GetZoneExit(@, [call[p].zone EXCEPT !.Region = cs.zone], NoErr)]
    /\ UNCHANGED <<cs, vms, firstResolved, Rest>>

(***************************************************************************)
(* InstanceMetadata(node).                                                 *)
(***************************************************************************)
\* instanceType, err := cs.InstanceType(ctx, node.Name)
InstanceMetadata(p) ==
    /\ CanCall(p)
    /\ \E node \in NodeNames : \E r \in Responses(vms, "name", node, cs.projectID) :
          LET t == InstanceTypeResult(r)
              c1 == Returned(Looked(Fresh("InstanceMetadata", node), "InstanceType", "name",
                                    node, cs.projectID, r), "InstanceType", t.err)
          IN  call' = [call EXCEPT ![p] =
                          MetaCheck([c1 EXCEPT !.instanceType = t.val, !.nodeInst = r.inst],
                                    t.err, "md_addr")]
    /\ UNCHANGED <<cs, vms, firstResolved, Rest>>

\* addresses, err := cs.NodeAddresses(ctx, node.Name)
MetaAddresses(p) ==
    /\ call[p].pc = "md_addr"
    /\ \E r \in Responses(vms, "name", call[p].arg, cs.projectID) :
          LET a == NodeAddressesResult(r)
              c1 == Returned(Looked(call[p], "NodeAddresses", "name", call[p].arg,
                                    cs.projectID, r), "NodeAddresses", a.err)
          IN  call' = [call EXCEPT ![p] =
                          MetaCheck([c1 EXCEPT !.addresses = a.val, !.nodeInst = r.inst],
                                    a.err, "md_zone")]
    /\ UNCHANGED <<cs, vms, firstResolved, Rest>>

\* zone, err := cs.GetZone(ctx)
MetaZone(p) ==
    /\ call[p].pc = "md_zone"
    /\ call' = [call EXCEPT ![p] = GetZoneEnter(@)]
    /\ UNCHANGED <<cs, vms, firstResolved, Rest>>

\* return &cloudprovider.InstanceMetadata{...}, nil
MetaBuild(p) ==
    /\ call[p].pc = "md_build"
    /\ call' = [call EXCEPT ![p] =
                   Done(@, Ret([ProviderID |-> ProviderName,
                                InstanceType |-> call[p].instanceType,
                                NodeAddresses |-> call[p].addresses,
                                Zone |-> cs.zone,
                                Region |-> call[p].zone.Region], NoErr))]
    /\ UNCHANGED <<cs, vms, firstResolved, Rest>>

(***************************************************************************)
(* The remote API changes under the adapter: a machine of U is created or  *)
(* destroyed.                                                              *)
(***************************************************************************)
RemoteChangeIn(U) ==
    /\ \E v \in U : vms' = IF v \in vms THEN vms \ {v} ELSE vms \cup {v}
    /\ UNCHANGED <<cs, call, firstResolved, Rest>>

(***************************************************************************)
(* The adapter in service: constructed from a valid configuration of C,    *)
(* with any of the machines of U existing.                                 *)
(***************************************************************************)
ServiceConfigs ==
    { c \in Configs : c.APIURL # "" /\ c.APIKey # "" /\ c.SecretKey # "" /\ ~c.SSLNoVerify }

NoRet == [nil |-> TRUE]

InitService(C, U) ==
    /\ cfg \in C
    /\ newRet = NewCSCloud(cfg)
    /\ cs = newRet.cs
    /\ vms \in SUBSET U
    /\ call = [p \in Procs |-> IdleCall]
    /\ firstResolved = [set |-> FALSE, zone |-> ""]
    /\ capRet = NoRet
    /\ inst0 = NoVM
    /\ pureRet = NoRet

\* the calls that read or write the zone
ZoneStep(p) ==
    \/ GetZoneByProviderID(p)
    \/ GetZoneByNodeName(p)
    \/ GetZone(p)
    \/ GetZoneLookup(p)
    \/ GetZoneWrite(p)
    \/ GetZoneFailureDomain(p)
    \/ GetZoneRegion(p)
    \/ InstanceMetadata(p)
    \/ MetaAddresses(p)
    \/ MetaZone(p)
    \/ MetaBuild(p)

\* the other instance calls
InstanceStep(p) ==
    \/ NodeAddresses(p)
    \/ NodeAddressesByProviderID(p)
    \/ InstanceID(p)
    \/ InstanceType(p)
    \/ InstanceTypeByProviderID(p)
    \/ InstanceExistsByProviderID(p)
    \/ InstanceExists(p)
    \/ InstanceExistsSecond(p)

(***************************************************************************)
(* Spec: every call, one at a time (one goroutine), over every machine and *)
(* every valid configuration.                                              *)
(***************************************************************************)
Init == InitService(ServiceConfigs, VMUniverse)

RemoteChange == RemoteChangeIn(VMUniverse)

Next == RemoteChange \/ ZoneStep(1) \/ InstanceStep(1)

Spec == Init /\ [][Next]_vars

(***************************************************************************)
(* SpecConc: the calls that touch the zone, from NumCallers goroutines at  *)
(* once, with no project configured and the machines that carry the local  *)
(* host's name and a zone name.                                            *)
(***************************************************************************)
HostVMs == { v \in VMUniverse : v.Name = HostName /\ v.Zonename # "" }

InitConc == InitService({ c \in ServiceConfigs : c.ProjectID = "" }, HostVMs)

HostChange == RemoteChangeIn(HostVMs)

NextConc == HostChange \/ \E p \in Procs : ZoneStep(p)

SpecConc == InitConc /\ [][NextConc]_vars

(***************************************************************************)
(* SpecInit: construction and the capability queries.  The receiver of a   *)
(* query is a CSCloud value: the one newCSCloud builds before it attaches  *)
(* a client, or the one it returns.                                        *)
(***************************************************************************)
InitNew ==
    /\ cfg \in Configs
    /\ cs = CSCloudLiteral(cfg)
    /\ newRet = NoRet
    /\ capRet = NoRet
    /\ vms = {}
    /\ call = [p \in Procs |-> IdleCall]
    /\ firstResolved = [set |-> FALSE, zone |-> ""]
    /\ inst0 = NoVM
    /\ pureRet = NoRet

\* newCSCloud(cfg)
newCSCloud ==
    /\ newRet = NoRet
    /\ newRet' = NewCSCloud(cfg)
    /\ cs' = newRet'.cs
    /\ UNCHANGED <<vms, call, firstResolved, cfg, capRet, inst0, pureRet>>

\* a capability query on the adapter: its answer, and the adapter before and after
Query(q, res) ==
    /\ cs' = cs
    /\ capRet' = [query |-> q, recv |-> cs, after |-> cs', impl |-> res.impl, ok |-> res.ok]
    /\ UNCHANGED <<vms, call, firstResolved, cfg, newRet, inst0, pureRet>>

QueryLoadBalancer == cs # NoAdapter /\ Query("LoadBalancer", LoadBalancer(cs))

QueryInstances == cs # NoAdapter /\ Query("Instances", Instances(cs))

QueryInstancesV2 == cs # NoAdapter /\ Query("InstancesV2", InstancesV2(cs))

QueryZones == cs # NoAdapter /\ Query("Zones", ZonesCap(cs))

QueryClusters == cs # NoAdapter /\ Query("Clusters", Clusters(cs))

QueryRoutes == cs # NoAdapter /\ Query("Routes", Routes(cs))

NextInit ==
    \/ newCSCloud
    \/ QueryLoadBalancer
    \/ QueryInstances
    \/ QueryInstancesV2
    \/ QueryZones
    \/ QueryClusters
    \/ QueryRoutes

SpecInit == InitNew /\ [][NextInit]_vars

(***************************************************************************)
(* SpecPure: the functions of one remote instance, on every instance of a  *)
(* bounded set: every list of up to MaxNics interfaces with and without a  *)
(* host name and a public IP, and every service-offering name of up to     *)
(* MaxNameLen characters of Alphabet, and two longer names.                *)
(***************************************************************************)
MaxNics == 2

NicAddrs == {"10.0.0.5", "10.0.0.6"}

NicLists == UNION { [1 .. k -> NicAddrs] : k \in 0 .. MaxNics }

OfferingNames ==
    UNION { [1 .. k -> Alphabet] : k \in 0 .. MaxNameLen }
    \cup { <<"m", "1", ".", "s", "m", "a", "l", "l", "!", "!">>,
           <<"#", "#", "g", "p", "u", "-", "l", "a", "r", "g", "e">> }

PureInstances ==
    { VM("i0", "node1", "", "z1", nic, hn, pub, <<"m", "1">>) :
        nic \in NicLists, hn \in {"", "node1"}, pub \in {"", "203.0.113.9"} }
    \cup { VM("i0", "node1", "", "z1", <<"10.0.0.5">>, "", "", off) : off \in OfferingNames }

\* a lookup that found the instance
Found(instance) == [inst |-> instance, count |-> 1, err |-> "nil"]

InitPure ==
    /\ inst0 \in PureInstances
    /\ pureRet = NoRet
    /\ cfg = NoRet
    /\ cs = NoAdapter
    /\ newRet = NoRet
    /\ capRet = NoRet
    /\ vms = {}
    /\ call = [p \in Procs |-> IdleCall]
    /\ firstResolved = [set |-> FALSE, zone |-> ""]

ApplyNodeAddresses ==
    /\ pureRet' = [fn |-> "NodeAddresses", res |-> NodeAddressesResult(Found(inst0))]
    /\ UNCHANGED <<cs, vms, call, firstResolved, cfg, newRet, capRet, inst0>>

ApplyInstanceType ==
    /\ pureRet' = [fn |-> "InstanceType", res |-> InstanceTypeResult(Found(inst0))]
    /\ UNCHANGED <<cs, vms, call, firstResolved, cfg, newRet, capRet, inst0>>

NextPure == ApplyNodeAddresses \/ ApplyInstanceType

SpecPure == InitPure /\ [][NextPure]_vars

(***************************************************************************)
(* Properties.                                                             *)
(***************************************************************************)
Finished(c, ops) == c.pc = "done" /\ c.op \in ops

\* the part of call c that is a GetZone call: whether it returned, with what error,
\* and the lookups it made
GetZoneRets(c) == { i \in DOMAIN c.rets : c.rets[i].fn = "GetZone" }

MadeByGetZone(l) == l.fn = "GetZone"

GetZoneLookups(c) == SelectSeq(c.lookups, MadeByGetZone)

GetZoneErr(c) == c.rets[CHOOSE i \in GetZoneRets(c) : TRUE].err

ZoneOf(name) == [FailureDomain |-> name, Region |-> name]

\* a GetZone call, direct or inside InstanceMetadata, that has returned
GetZoneReturned(c) == c.op \in {"GetZone", "InstanceMetadata"} /\ GetZoneRets(c) # {}

\* a GetZone call that found the cache empty and succeeded made exactly one lookup,
\* by the local host name, and the cache and its result hold the zone name returned
ResolvedByOneLookup(c) ==
    (GetZoneReturned(c) /\ GetZoneErr(c) = NoErr /\ c.cached = "")
        => /\ Len(GetZoneLookups(c)) = 1
           /\ GetZoneLookups(c)[1].by = "name"
           /\ GetZoneLookups(c)[1].key = HostName
           /\ c.zone = ZoneOf(c.inst.Zonename)
           /\ (c.pc = "done" => cs.zone = c.inst.Zonename)

\* C1 as written: with calls one at a time, a GetZone call that finds the cache
\* empty and succeeds makes exactly one lookup by the local host name and stores the
\* zone name returned; every GetZone call that begins after the first such store
\* succeeds with that zone name and makes no lookup.
C1_Original ==
    LET c == call[1]
    IN  /\ ResolvedByOneLookup(c)
        /\ (GetZoneReturned(c) /\ c.later)
              => /\ GetZoneErr(c) = NoErr
                 /\ GetZoneLookups(c) = <<>>
                 /\ c.zone = ZoneOf(firstResolved.zone)

\* C1 amended: the same, for the later calls only when the zone name first stored
\* is not empty; and a GetZone call that finds any non-empty name in the cache
\* succeeds with it and makes no lookup.
C1_GetZoneCaching ==
    LET c == call[1]
    IN  /\ ResolvedByOneLookup(c)
        /\ (GetZoneReturned(c) /\ c.cached # "")
              => /\ GetZoneErr(c) = NoErr
                 /\ GetZoneLookups(c) = <<>>
                 /\ c.zone = ZoneOf(c.cached)
        /\ (GetZoneReturned(c) /\ c.later /\ firstResolved.zone # "")
              => /\ GetZoneErr(c) = NoErr
                 /\ GetZoneLookups(c) = <<>>
                 /\ c.zone = ZoneOf(firstResolved.zone)

\* a GetZone call served from a cache that an earlier GetZone call resolved
C1_Witness ==
    /\ Finished(call[1], {"GetZone"})
    /\ call[1].later
    /\ firstResolved.zone # ""
    /\ call[1].ret = Ret(ZoneOf(firstResolved.zone), NoErr)
    /\ cfg.Zone = ""

\* C2: once the cached zone is not empty, no step of any interleaving of calls
\* changes it.
C2_CacheMonotonic == [][cs.zone # "" => cs'.zone = cs.zone]_vars

ExistenceOps == {"InstanceExistsByProviderID", "InstanceExists"}

\* C3: an existence check (by identifier or by node) whose lookup reported zero
\* matches returns (false, nil); whose lookup failed otherwise returns false and an
\* error; and returns (true, nil) otherwise.
C3_Existence ==
    \A p \in Procs :
        LET c == call[p]
            l == c.lookups[Len(c.lookups)]
        IN  Finished(c, ExistenceOps)
               => /\ (l.err # "nil" /\ l.count = 0) => c.ret = Ret(FALSE, NoErr)
                  /\ (l.err # "nil" /\ l.count # 0) => (c.ret.val = FALSE /\ c.ret.err # NoErr)
                  /\ l.err = "nil" => c.ret = Ret(TRUE, NoErr)

MetaOrder == <<"InstanceType", "NodeAddresses", "GetZone">>

\* C4: InstanceMetadata runs InstanceType, NodeAddresses, GetZone in this order; no
\* sub-call runs after one that failed, and no lookup is made after it; the error of
\* the one that failed is returned as it is, with no metadata.
C4_MetadataAborts ==
    LET c == call[1]
        n == Len(c.rets)
    IN  Finished(c, {"InstanceMetadata"})
           => /\ n \in 1 .. 3
              /\ \A i \in 1 .. n : c.rets[i].fn = MetaOrder[i]
              /\ \A i \in 1 .. (n - 1) : c.rets[i].err = NoErr
              /\ \A i \in DOMAIN c.lookups : \E j \in 1 .. n : c.lookups[i].fn = MetaOrder[j]
              /\ Len(c.lookups) <= n
              /\ IF c.rets[n].err # NoErr
                 THEN c.ret = Ret(NoMeta, c.rets[n].err)
                 ELSE n = 3 /\ c.ret.err = NoErr /\ c.ret.val # NoMeta

\* InstanceMetadata stopped by the address lookup: the type lookup succeeded, the
\* address lookup failed, no zone lookup was made
C4_Witness ==
    /\ Finished(call[1], {"InstanceMetadata"})
    /\ Len(call[1].rets) = 2
    /\ call[1].rets[2].err # NoErr
    /\ call[1].ret.err = call[1].rets[2].err

\* C5: the metadata InstanceMetadata returns for a node has, as zone and as region,
\* the zone name of the instance looked up for that node.
C5_MetadataZoneOfNode ==
    LET c == call[1]
    IN  (Finished(c, {"InstanceMetadata"}) /\ c.ret.err = NoErr)
           => /\ c.ret.val.Zone = c.nodeInst.Zonename
              /\ c.ret.val.Region = c.nodeInst.Zonename

Complete(c) == c.APIURL # "" /\ c.APIKey # "" /\ c.SecretKey # ""

\* C6: newCSCloud returns an adapter, with a client and the settings' project and
\* zone, exactly when endpoint, API key and secret key are all non-empty; otherwise
\* it returns no adapter and the configuration error.
C6_Construction ==
    newRet # NoRet
       => IF Complete(cfg)
          THEN /\ newRet.err = NoErr
               /\ newRet.cs # NoAdapter
               /\ newRet.cs.client # NoClient
               /\ newRet.cs.projectID = cfg.ProjectID
               /\ newRet.cs.zone = cfg.Zone
          ELSE /\ newRet.err = Err("no cloud provider config given", "")
               /\ newRet.cs = NoAdapter

\* construction refused for a single missing field
C6_Witness ==
    /\ newRet # NoRet
    /\ newRet.err # NoErr
    /\ cfg.APIURL # "" /\ cfg.APIKey # "" /\ cfg.SecretKey = ""

\* C7: with a client, LoadBalancer, Instances, InstancesV2 and Zones answer the
\* adapter itself and true, Clusters and Routes answer nil and false; with no client
\* every query answers nil and false; no query changes the adapter.
C7_Capabilities ==
    capRet # NoRet
       => /\ capRet.after = capRet.recv
          /\ IF capRet.recv.client # NoClient
                /\ capRet.query \in {"LoadBalancer", "Instances", "InstancesV2", "Zones"}
             THEN capRet.ok /\ capRet.impl = capRet.recv
             ELSE ~capRet.ok /\ capRet.impl = NoAdapter

\* Clusters asked of an adapter that has a client
C7_Witness ==
    /\ capRet # NoRet
    /\ capRet.query = "Clusters"
    /\ capRet.recv.client # NoClient
    /\ ~capRet.ok

\* The filter the claim describes: leading and trailing non-alphanumeric characters
\* removed, '-', '_' and '.' between alphanumeric characters kept.
IsLabelChar(ch) == ch \in (AlphaNum \cup LabelPunct)

RefLabel(s) ==
    LET alnum == { i \in DOMAIN s : s[i] \in AlphaNum }
    IN  IF alnum = {} THEN <<>>
        ELSE SelectSeq(SubSeq(s, CHOOSE i \in alnum : \A j \in alnum : i <= j,
                                 CHOOSE i \in alnum : \A j \in alnum : j <= i),
                       IsLabelChar)

\* C8: the type returned for a service-offering name is that name filtered as the
\* claim describes.
C8_TypeSanitized ==
    (pureRet # NoRet /\ pureRet.fn = "InstanceType")
       => pureRet.res = Ret(RefLabel(inst0.Serviceofferingname), NoErr)

SingleLookupOps ==
    {"NodeAddresses", "NodeAddressesByProviderID", "InstanceID", "InstanceType",
     "InstanceTypeByProviderID", "InstanceExistsByProviderID"}

\* C9 as written: each of the seven operations makes exactly one lookup.
C9_Original ==
    Finished(call[1], SingleLookupOps \cup {"InstanceExists"}) => Len(call[1].lookups) = 1

\* C9 amended: each of the six other operations makes exactly one lookup; existence
\* by node makes one lookup by the node's name and, exactly when that succeeds, one
\* more by the identifier it returned.
C9_LookupCount ==
    LET c == call[1]
    IN  /\ Finished(c, SingleLookupOps) => Len(c.lookups) = 1
        /\ Finished(c, {"InstanceExists"})
              => /\ c.lookups[1].by = "name" /\ c.lookups[1].key = c.arg
                 /\ IF c.lookups[1].err # "nil"
                    THEN Len(c.lookups) = 1
                    ELSE /\ Len(c.lookups) = 2
                         /\ c.lookups[2].by = "id"
                         /\ c.lookups[2].key = c.providerID

\* existence by node after both of its lookups
C9_Witness ==
    /\ Finished(call[1], {"InstanceExists"})
    /\ Len(call[1].lookups) = 2
    /\ call[1].ret = Ret(TRUE, NoErr)

\* C10: nodeAddresses of an instance with no interface is the error and no list;
\* otherwise the list is the first interface's address as internal, then the host
\* name if it is not empty, then the public IP if it is not empty, and nothing else.
C10_AddressAssembly ==
    (pureRet # NoRet /\ pureRet.fn = "NodeAddresses")
       => LET r == pureRet.res
              hn == IF inst0.Hostname # "" THEN 1 ELSE 0
              pub == IF inst0.Publicip # "" THEN 1 ELSE 0
          IN  IF inst0.Nic = <<>>
              THEN r = Ret(<<>>, Err("instance does not have an internal IP", ""))
              ELSE /\ r.err = NoErr
                   /\ Len(r.val) = 1 + hn + pub
                   /\ r.val[1] = [Type |-> "InternalIP", Address |-> inst0.Nic[1]]
                   /\ hn = 1 => r.val[2] = [Type |-> "Hostname", Address |-> inst0.Hostname]
                   /\ pub = 1 => r.val[1 + hn + pub] =
                                    [Type |-> "ExternalIP", Address |-> inst0.Publicip]

\* an instance with two interfaces, a host name and a public IP: three entries
C10_Witness ==
    /\ pureRet # NoRet
    /\ pureRet.fn = "NodeAddresses"
    /\ Len(inst0.Nic) = 2
    /\ Len(pureRet.res.val) = 3

====
